---- MODULE Spec2Model ----
(***************************************************************************)
(* A model of migrate_md.py: the chain of line processors                  *)
(* (HeaderTransformer, CodeBlocks, Toc, InternalContentLinks, SiteLinks),  *)
(* the per-file loop of migrate() and the per-pattern loop of main().      *)
(*                                                                         *)
(* Lines are strings, as in the program; the string helpers below compute  *)
(* what the Python str methods compute (0-indexed positions, slices that   *)
(* clamp and wrap negative bounds, find returning -1).                     *)
(***************************************************************************)
EXTENDS Integers, Sequences, FiniteSets, TLC

VARIABLES
    files,        \* md_file -> its current content (sequence of written chunks)
    backups,      \* md_file -> [exists, lines] : the <stem>.md.backup sibling
    run,          \* number of invocations of main() started so far
    pc,           \* position of main(): "idle", "glob", "lines", "failed"
    fileIdx,      \* index in the glob match of the file being migrated
    primed,       \* HeaderTransformer.primed
    completed,    \* HeaderTransformer.completed
    content,      \* HeaderTransformer.content (insertion-ordered mapping)
    current_tag,  \* HeaderTransformer.current_tag
    n,            \* number of lines of the backup read so far (next line_number)
    last,         \* what the last iteration of the loop of migrate() did
    hist          \* history: the files as first found, and as the first run left them

vars == <<files, backups, run, pc, fileIdx, primed, completed, content,
          current_tag, n, last, hist>>

(***************************************************************************)
(* Python str helpers                                                      *)
(***************************************************************************)
SetMin(S) == CHOOSE x \in S : \A y \in S : x <= y

SetMax(S) == CHOOSE x \in S : \A y \in S : x >= y

\* how Python normalises a slice bound against a length
Norm(i, len) ==
    IF i < 0 THEN (IF i + len < 0 THEN 0 ELSE i + len)
    ELSE IF i > len THEN len ELSE i

\* s[a:b]
Slice(s, a, b) ==
    LET lo == Norm(a, Len(s))
        hi == Norm(b, Len(s))
    IN  IF lo >= hi THEN "" ELSE SubSeq(s, lo + 1, hi)

\* s[a:]
SliceFrom(s, a) == Slice(s, a, Len(s))

\* s.find(sub, start, end): lowest index of sub within s[start:end], or -1
Find(s, sub, start, end) ==
    LET lo == Norm(start, Len(s))
        hi == Norm(end, Len(s))
        c  == {i \in lo..(hi - Len(sub)) : SubSeq(s, i + 1, i + Len(sub)) = sub}
    IN  IF c = {} THEN -1 ELSE SetMin(c)

\* s.find(sub)
FindIn(s, sub) == Find(s, sub, 0, Len(s))

\* sub in s
Contains(s, sub) == FindIn(s, sub) # -1

\* s.startswith(prefix)
StartsWith(s, prefix) ==
    Len(s) >= Len(prefix) /\ SubSeq(s, 1, Len(prefix)) = prefix

\* the characters str.strip() removes
Whitespace == {" ", "\n", "\t", "\r"}

\* s.strip(chars) for a set of characters
StripSet(s, chars) ==
    LET keep == {i \in 1..Len(s) : SubSeq(s, i, i) \notin chars}
    IN  IF keep = {} THEN "" ELSE SubSeq(s, SetMin(keep), SetMax(keep))

\* s.strip()
Strip(s) == StripSet(s, Whitespace)

\* s.lstrip()
LStrip(s) ==
    LET keep == {i \in 1..Len(s) : SubSeq(s, i, i) \notin Whitespace}
    IN  IF keep = {} THEN "" ELSE SubSeq(s, SetMin(keep), Len(s))

UpperCase == "ABCDEFGHIJKLMNOPQRSTUVWXYZ"

LowerCase == "abcdefghijklmnopqrstuvwxyz"

LowerChar(c) ==
    LET i == FindIn(UpperCase, c)
    IN  IF i = -1 THEN c ELSE SubSeq(LowerCase, i + 1, i + 1)

RECURSIVE Lower(_)
\* s.lower()
Lower(s) ==
    IF s = "" THEN ""
    ELSE LowerChar(SubSeq(s, 1, 1)) \o Lower(SubSeq(s, 2, Len(s)))

RECURSIVE Join(_, _)
\* sep.join(items) for a list of strings
Join(sep, items) ==
    IF items = <<>> THEN ""
    ELSE IF Len(items) = 1 THEN items[1]
    ELSE items[1] \o sep \o Join(sep, Tail(items))

\* list(s): the characters of a string, what iterating a str yields
Chars(s) == [i \in 1..Len(s) |-> SubSeq(s, i, i)]

(***************************************************************************)
(* Values: None, and the two shapes a tag of content can hold              *)
(***************************************************************************)
None == [isNone |-> TRUE, v |-> ""]

Some(s) == [isNone |-> FALSE, v |-> s]

\* Python truthiness of an optional str: neither None nor ""
Truthy(o) == ~o.isNone /\ o.v # ""

StrValue(k, s) == [k |-> k, isStr |-> TRUE, s |-> s, items |-> <<>>]

ListValue(k, items) == [k |-> k, isStr |-> FALSE, s |-> "", items |-> items]

\* k in d
HasKey(d, k) == \E i \in 1..Len(d) : d[i].k = k

\* the position of k in d
KeyIndex(d, k) == CHOOSE i \in 1..Len(d) : d[i].k = k

\* d[k]
Get(d, k) == d[KeyIndex(d, k)]

\* d[k] = entry: a dict keeps the position of a key it already holds
Put(d, entry) ==
    IF HasKey(d, entry.k) THEN [d EXCEPT ![KeyIndex(d, entry.k)] = entry]
    ELSE Append(d, entry)

(***************************************************************************)
(* LineProcessor.process_line results: (modified, new_line), or an         *)
(* exception leaving process_line                                          *)
(***************************************************************************)
Returned(self, modified, new_line) ==
    [self |-> self, modified |-> modified, new_line |-> new_line, raised |-> ""]

Raised(self, exc) ==
    [self |-> self, modified |-> FALSE, new_line |-> None, raised |-> exc]

(***************************************************************************)
(* HeaderTransformer.  self is the record of the object's four fields.     *)
(***************************************************************************)
HeaderTransformer_init ==
    [primed |-> FALSE, completed |-> FALSE, content |-> <<>>, current_tag |-> None]

_process_tag(self, tag0, value0) ==
    LET tag   == Lower(Strip(tag0))
        value == Strip(value0)
    IN  [self EXCEPT !.current_tag = Some(tag),
                     !.content = IF value # "" THEN Put(@, StrValue(tag, value)) ELSE @]

\* not self.current_tag: None and "" are both falsy
NoCurrentTag(self) == ~Truthy(self.current_tag)

\* a _process_item without its isinstance check
ItemRaisesUntyped(self) == NoCurrentTag(self)

\* the two conditions under which _process_item raises
ItemRaises(self) ==
    \/ NoCurrentTag(self)
    \/ /\ HasKey(self.content, self.current_tag.v)
       /\ Get(self.content, self.current_tag.v).isStr

\* the state _process_item leaves when it does not raise
ItemStored(self, item0) ==
    LET item == Strip(item0)
        tag  == self.current_tag.v
    IN  IF HasKey(self.content, tag)
        THEN [self EXCEPT !.content =
                 Put(@, ListValue(tag, Append(Get(@, tag).items, item)))]
        ELSE [self EXCEPT !.content = Put(@, ListValue(tag, <<item>>))]

_process_item(self, item0) ==
    IF ItemRaises(self) THEN [raised |-> "RuntimeError", self |-> self]
    ELSE [raised |-> "", self |-> ItemStored(self, item0)]

\* the exception one entry of content makes _new_header_content raise, if any:
\* str.strip on a list, and str + list
RenderRaises(e) ==
    IF e.k = "title" /\ ~e.isStr THEN "AttributeError"
    ELSE IF e.k = "description" /\ ~e.isStr THEN "TypeError"
    ELSE ""

\* the line one entry of content renders to (<<>> for the other tags)
RenderEntry(e) ==
    IF e.k = "title" THEN <<"Title: " \o StripSet(e.s, {"\""})>>
    ELSE IF e.k = "tags"
         THEN <<"Tags: " \o Join(", ", IF e.isStr THEN Chars(e.s) ELSE e.items)>>
    ELSE IF e.k = "description" THEN <<"Summary: " \o e.s>>
    ELSE <<>>

RECURSIVE _new_header_content(_)
\* [raised, res]: res is the list the method returns
_new_header_content(d) ==
    IF d = <<>> THEN [raised |-> "", res |-> <<>>]
    ELSE IF RenderRaises(d[1]) # "" THEN [raised |-> RenderRaises(d[1]), res |-> <<>>]
    ELSE LET rest == _new_header_content(Tail(d))
         IN  [raised |-> rest.raised, res |-> RenderEntry(d[1]) \o rest.res]

\* a tag branch that records a tag whose colon is at index 1
HeaderColonFromOne(self, line, colon_index) ==
    IF colon_index > 0
    THEN Returned(_process_tag(self, Slice(line, 0, colon_index),
                               SliceFrom(line, colon_index + 1)), TRUE, None)
    ELSE Returned(self, TRUE, None)

\* the tag branch: any colon makes the method return (True, None); the tag
\* is recorded only when the colon is at an index greater than 1
HeaderColon(self, line, colon_index) ==
    IF colon_index > 1
    THEN Returned(_process_tag(self, Slice(line, 0, colon_index),
                               SliceFrom(line, colon_index + 1)), TRUE, None)
    ELSE Returned(self, TRUE, None)

HeaderItem(self, line) ==
    LET r == _process_item(self, Strip(SliceFrom(line, FindIn(line, "-") + 1)))
    IN  IF r.raised # "" THEN Raised(self, r.raised)
        ELSE Returned(r.self, TRUE, None)

HeaderClose(self, line) ==
    LET done == [self EXCEPT !.completed = TRUE]
        h    == _new_header_content(self.content)
    IN  IF h.raised # "" THEN Raised(done, h.raised)
        ELSE IF h.res # <<>> THEN Returned(done, TRUE, Some(Join("\n", h.res) \o "\n"))
        ELSE Returned(done, TRUE, None)

\* a HeaderTransformer that forgets it has completed
HeaderIdleUncompleted(self) == ~self.primed

\* "if not self.primed or self.completed"
HeaderIdle(self) == ~self.primed \/ self.completed

HeaderTransformer_process_line(self, line_number, line) ==
    IF line_number = 0 /\ line = "---\n"
    THEN Returned([self EXCEPT !.primed = TRUE], TRUE, None)
    ELSE IF HeaderIdle(self) THEN Returned(self, FALSE, Some(line))
    ELSE IF FindIn(line, ":") # -1 THEN HeaderColon(self, line, FindIn(line, ":"))
    ELSE IF StartsWith(LStrip(line), "- ") THEN HeaderItem(self, line)
    ELSE IF line = "---\n" THEN HeaderClose(self, line)
    ELSE Returned(self, FALSE, Some(line))

(***************************************************************************)
(* CodeBlocks and Toc                                                      *)
(***************************************************************************)
_opening_start == "{% highlight"

_opening_end == "%}"

\* the Markdown code fence, three backquotes.  A TLA+ string cannot hold a
\* backquote: ^ stands for it, and no line of the model holds a ^.
Fence == "^^^"

CodeBlocks_process_line(self, line_number, line) ==
    LET s == FindIn(line, _opening_start)
        e == IF s = -1 THEN -1
             ELSE Find(line, _opening_end, s + Len(_opening_start), Len(line))
    IN  IF s # -1 /\ e # -1
        THEN Returned(self, TRUE,
                 Some(Fence \o Strip(Slice(line, s + Len(_opening_start), e)) \o "\n"))
        ELSE IF Contains(line, "{% endhighlight %}") THEN Returned(self, TRUE, Some(Fence \o "\n"))
        ELSE Returned(self, FALSE, Some(line))

Toc_process_line(self, line_number, line) ==
    IF Contains(line, "* Table of Contents") THEN Returned(self, TRUE, None)
    ELSE IF Contains(line, "{:toc}") THEN Returned(self, TRUE, Some("[TOC]\n"))
    ELSE Returned(self, FALSE, Some(line))

(***************************************************************************)
(* InternalContentLinks                                                    *)
(***************************************************************************)
_post_url_tag == "post_url"

InternalContentLinks_customize_link_path(link_path) ==
    IF StartsWith(link_path, "articles/") \/ StartsWith(link_path, "tips/")
    THEN "/" \o link_path \o ".md"
    ELSE link_path

\* new_line.index(")"): the first closing parenthesis of the whole line
InternalClosingParen(new_line, op) == FindIn(new_line, ")")

\* one iteration of the while loop: [raised, new_line]
InternalRewriteOnce(new_line, pos) ==
    LET op == Find(new_line, "(", pos - 5, pos)
        ep == InternalClosingParen(new_line, op)
        link_path == Strip(Slice(new_line, op + 1, ep))
        pp == FindIn(link_path, "{%")
        pe == FindIn(link_path, "%}")
        body == Strip(Slice(link_path, pp + 2, pe))
        path == InternalContentLinks_customize_link_path(
                    Strip(SliceFrom(body, Len(_post_url_tag) + 1)))
    IN  IF op = -1 \/ ep = -1 THEN [raised |-> "RuntimeError", new_line |-> new_line]
        ELSE IF ~(pp > -1 /\ pe > -1) THEN [raised |-> "RuntimeError", new_line |-> new_line]
        ELSE IF ~StartsWith(body, _post_url_tag)
             THEN [raised |-> "RuntimeError", new_line |-> new_line]
        ELSE [raised |-> "",
              new_line |-> Slice(new_line, 0, op + pp + 1) \o "{filename}" \o path
                           \o SliceFrom(new_line, op + pe + 3)]

RECURSIVE InternalRewriteAll(_)
\* the while loop: rescans the mutated line until the tag is gone
InternalRewriteAll(new_line) ==
    LET pos == FindIn(new_line, _post_url_tag)
    IN  IF pos = -1 THEN [raised |-> "", new_line |-> new_line]
        ELSE LET r == InternalRewriteOnce(new_line, pos)
             IN  IF r.raised # "" THEN r ELSE InternalRewriteAll(r.new_line)

InternalContentLinks_process_line(self, line_number, line) ==
    IF FindIn(line, _post_url_tag) < 0 THEN Returned(self, FALSE, Some(line))
    ELSE LET r == InternalRewriteAll(line)
         IN  IF r.raised # "" THEN Raised(self, r.raised)
             ELSE Returned(self, TRUE, Some(r.new_line))

(***************************************************************************)
(* SiteLinks                                                               *)
(***************************************************************************)
_site_url_tag == "site.url"

SiteLinks_customize_link_path(link_path) ==
    IF StartsWith(link_path, "/resources/")
    THEN "/images/" \o SliceFrom(link_path, Len("/resources/"))
    ELSE link_path

SiteRewriteOnce(new_line, pos) ==
    LET op == Find(new_line, "(", pos - 5, pos)
        ep == FindIn(new_line, ")")
        link_path == Strip(Slice(new_line, op + 1, ep))
        pp == FindIn(link_path, "{{")
        pe == FindIn(link_path, "}}")
        site_url == Strip(Slice(link_path, pp + 2, pe))
        path == SiteLinks_customize_link_path(Strip(SliceFrom(link_path, pe + 2)))
    IN  IF op = -1 \/ ep = -1 THEN [raised |-> "RuntimeError", new_line |-> new_line]
        ELSE IF ~(pp > -1 /\ pe > -1) THEN [raised |-> "RuntimeError", new_line |-> new_line]
        ELSE IF site_url # _site_url_tag
             THEN [raised |-> "RuntimeError", new_line |-> new_line]
        ELSE [raised |-> "",
              new_line |-> Slice(new_line, 0, op + pp + 1) \o "{static}" \o path
                           \o SliceFrom(new_line, ep)]

RECURSIVE SiteRewriteAll(_)
SiteRewriteAll(new_line) ==
    LET pos == FindIn(new_line, _site_url_tag)
    IN  IF pos = -1 THEN [raised |-> "", new_line |-> new_line]
        ELSE LET r == SiteRewriteOnce(new_line, pos)
             IN  IF r.raised # "" THEN r ELSE SiteRewriteAll(r.new_line)

SiteLinks_process_line(self, line_number, line) ==
    IF FindIn(line, _site_url_tag) < 0 THEN Returned(self, FALSE, Some(line))
    ELSE LET r == SiteRewriteAll(line)
         IN  IF r.raised # "" THEN Raised(self, r.raised)
             ELSE Returned(self, TRUE, Some(r.new_line))

(***************************************************************************)
(* The processor chain of migrate()                                        *)
(***************************************************************************)
_create_processors ==
    <<"HeaderTransformer", "CodeBlocks", "Toc", "InternalContentLinks", "SiteLinks">>

\* p.process_line(n, l); only HeaderTransformer has fields
process_line(p, self, line_number, line) ==
    CASE p = "HeaderTransformer" -> HeaderTransformer_process_line(self, line_number, line)
      [] p = "CodeBlocks" -> CodeBlocks_process_line(self, line_number, line)
      [] p = "Toc" -> Toc_process_line(self, line_number, line)
      [] p = "InternalContentLinks" ->
             InternalContentLinks_process_line(self, line_number, line)
      [] p = "SiteLinks" -> SiteLinks_process_line(self, line_number, line)

\* a loop over the processors without its break
NeverStops(r) == FALSE

\* "stops at 1st processor modifying the line"
StopsAt(r) == r.modified

\* the outcome of the loop over the processors: what the last processor
\* called returned or raised, and consulted, the processors called
Outcome(r, consulted) ==
    [self |-> r.self, modified |-> r.modified, new_line |-> r.new_line,
     raised |-> r.raised, consulted |-> consulted]

Prepend(p, rest) == [rest EXCEPT !.consulted = <<p>> \o @]

RECURSIVE Dispatch(_, _, _, _, _)
RECURSIVE DispatchOn(_, _, _, _, _)
\* what follows the call of processors[i], which returned or raised r
DispatchOn(processors, i, line_number, line, r) ==
    IF r.raised # "" \/ StopsAt(r) THEN Outcome(r, <<processors[i]>>)
    ELSE Prepend(processors[i], Dispatch(processors, i + 1, r.self, line_number, line))

\* for p in processors: ... break, from processors[i] on
Dispatch(processors, i, self, line_number, line) ==
    IF i > Len(processors) THEN Outcome(Returned(self, FALSE, Some(line)), <<>>)
    ELSE DispatchOn(processors, i, line_number, line,
                    process_line(processors[i], self, line_number, line))

\* what one iteration of the loop writes to f_md: a sequence of 0 or 1 chunks
Written(d, line) ==
    IF d.raised # "" THEN <<>>
    ELSE IF d.modified THEN (IF Truthy(d.new_line) THEN <<d.new_line.v>> ELSE <<>>)
    ELSE <<line>>

(***************************************************************************)
(* Bounds and inputs                                                       *)
(***************************************************************************)
\* lines per file in the runs of main()
MaxDocLines == 2

\* invocations of main()
MaxRuns == 2

\* lines read from one backup in the loop of migrate() taken alone
MaxLines == 4

\* pathlib.Path().glob(pattern): the files matched, in the order yielded
GlobMatch == <<"a.md", "b.md">>

MdFiles == {GlobMatch[i] : i \in 1..Len(GlobMatch)}

\* the lines the files of main() are made of
DocLines == {"---\n", "- a\n", "{:toc}\n", "post_url\n"}

RECURSIVE DocsOfLength(_)
DocsOfLength(k) ==
    IF k = 0 THEN {""}
    ELSE {l \o d : l \in DocLines, d \in DocsOfLength(k - 1)}

Documents == UNION {DocsOfLength(k) : k \in 1..MaxDocLines}

\* well-formed links to posts, [text]({% post_url <slug> %}), with the text
\* around them
WellFormedLinks ==
    {[pre |-> pre, links |-> <<[text |-> "p", slug |-> slug]>>, post |-> post] :
        pre \in {"", "See ", "(n) "}, slug \in {"x", "articles/x", "tips/y"},
        post \in {"", " (z)"}}
    \cup
    {[pre |-> "", links |-> <<[text |-> "p", slug |-> s1], [text |-> "q", slug |-> s2]>>,
      post |-> "."] : s1 \in {"x", "articles/x"}, s2 \in {"x", "tips/y"}}

LinkSource(link) == "[" \o link.text \o "]({% post_url " \o link.slug \o " %})"

RECURSIVE LinksSource(_)
LinksSource(links) ==
    IF links = <<>> THEN ""
    ELSE IF Len(links) = 1 THEN LinkSource(links[1])
    ELSE LinkSource(links[1]) \o " and " \o LinksSource(Tail(links))

\* the line of the source file that holds the links of w
LinkLine(w) == w.pre \o LinksSource(w.links) \o w.post \o "\n"

HeaderLines ==
    {"---\n", "title: \"Foo\"\n", "Tags:\n", "- a\n", "  - b\n", "description: bar\n",
     "layout: post\n", "tags: java\n", "title:\n", ":x\n", "a:\n", "  :\n", "\n", "text\n"}

BodyLines ==
    {"{:toc}\n", "* Table of Contents\n", "{% highlight python %}\n",
     "{% endhighlight %}\n", "{% highlight post_url %}\n", "post_url\n",
     "![i]({{ site.url }}/resources/a.png)\n", "site.url\n"}

\* the lines the loop of migrate() taken alone reads
LinePool == HeaderLines \cup BodyLines \cup {LinkLine(w) : w \in WellFormedLinks}

(***************************************************************************)
(* State                                                                   *)
(***************************************************************************)
NoBackup == [exists |-> FALSE, text |-> ""]

NoLast ==
    [n |-> -1, line |-> "", consulted |-> <<>>, modified |-> FALSE, new_line |-> None,
     raised |-> "", written |-> <<>>]

\* the HeaderTransformer of the current file
Self ==
    [primed |-> primed, completed |-> completed, content |-> content,
     current_tag |-> current_tag]

RECURSIVE SplitLines(_)
\* iterating a text file: each line ends after its "\n"
SplitLines(text) ==
    LET i == FindIn(text, "\n")
    IN  IF text = "" THEN <<>>
        ELSE IF i = -1 THEN <<text>>
        ELSE <<Slice(text, 0, i + 1)>> \o SplitLines(SliceFrom(text, i + 1))

\* a migrate() that copies the file whether or not the backup exists
BackupAlways(f) == TRUE

\* backup_file.exists() is false: migrate() copies the file
BackupNeeded(f) == ~backups[f].exists

\* a main() that catches what migrate() raises and goes on
AfterRaiseCaught == "glob"

\* no try/except in migrate() or main(): an exception ends the run
AfterRaise == "failed"

\* processors = _create_processors(): only the HeaderTransformer has fields
FreshProcessors ==
    /\ primed' = HeaderTransformer_init.primed
    /\ completed' = HeaderTransformer_init.completed
    /\ content' = HeaderTransformer_init.content
    /\ current_tag' = HeaderTransformer_init.current_tag

\* one iteration of "for n, l in enumerate(f_backup)", but for the write
LoopBody(l, d) ==
    /\ primed' = d.self.primed
    /\ completed' = d.self.completed
    /\ content' = d.self.content
    /\ current_tag' = d.self.current_tag
    /\ last' = [n |-> n, line |-> l, consulted |-> d.consulted, modified |-> d.modified,
                new_line |-> d.new_line, raised |-> d.raised, written |-> Written(d, l)]
    /\ n' = IF d.raised # "" THEN n ELSE n + 1
    /\ pc' = IF d.raised # "" THEN AfterRaise ELSE pc

Snapshot(fs, bs) == [done |-> TRUE, files |-> fs, backups |-> bs]

(***************************************************************************)
(* main() over the files of the glob match                                 *)
(***************************************************************************)
Init ==
    /\ files \in [MdFiles -> Documents]
    /\ backups = [f \in MdFiles |-> NoBackup]
    /\ run = 0
    /\ pc = "idle"
    /\ fileIdx = 0
    /\ primed = FALSE
    /\ completed = FALSE
    /\ content = <<>>
    /\ current_tag = None
    /\ n = 0
    /\ last = NoLast
    /\ hist = [orig |-> files, afterFirst |-> [done |-> FALSE, files |-> files,
                                               backups |-> backups]]

\* main() is started with a pattern ending in ".md"
Main ==
    /\ pc \in {"idle", "failed"}
    /\ run < MaxRuns
    /\ run' = run + 1
    /\ pc' = "glob"
    /\ fileIdx' = 1
    /\ UNCHANGED <<files, backups, primed, completed, content, current_tag, n, last, hist>>

\* migrate(f) up to the loop: the backup, the processors, both files opened
MigrateOpen ==
    /\ pc = "glob"
    /\ fileIdx <= Len(GlobMatch)
    /\ LET f == GlobMatch[fileIdx]
       IN  /\ backups' = IF BackupNeeded(f)
                         THEN [backups EXCEPT ![f] = [exists |-> TRUE, text |-> files[f]]]
                         ELSE backups
           /\ files' = [files EXCEPT ![f] = ""]
    /\ FreshProcessors
    /\ n' = 0
    /\ last' = NoLast
    /\ pc' = "lines"
    /\ UNCHANGED <<run, fileIdx, hist>>

\* the iteration of the loop of migrate(f) that reads line l with outcome d
WriteLine(f, l, d) ==
    /\ LoopBody(l, d)
    /\ files' = [files EXCEPT ![f] = @ \o Join("", Written(d, l))]
    /\ hist' = IF d.raised # "" /\ run = 1
               THEN [hist EXCEPT !.afterFirst = Snapshot(files', backups)]
               ELSE hist

ReadLine(f, l) == WriteLine(f, l, Dispatch(_create_processors, 1, Self, n, l))

\* one iteration of the loop of migrate(f)
MigrateLine ==
    /\ pc = "lines"
    /\ n < Len(SplitLines(backups[GlobMatch[fileIdx]].text))
    /\ ReadLine(GlobMatch[fileIdx], SplitLines(backups[GlobMatch[fileIdx]].text)[n + 1])
    /\ UNCHANGED <<backups, run, fileIdx>>

\* the end of migrate(f): both files closed, main() goes to the next file
MigrateClose ==
    /\ pc = "lines"
    /\ n = Len(SplitLines(backups[GlobMatch[fileIdx]].text))
    /\ pc' = "glob"
    /\ fileIdx' = fileIdx + 1
    /\ UNCHANGED <<files, backups, run, primed, completed, content, current_tag, n, last,
                   hist>>

\* the end of main()
MainDone ==
    /\ pc = "glob"
    /\ fileIdx > Len(GlobMatch)
    /\ pc' = "idle"
    /\ hist' = IF run = 1 THEN [hist EXCEPT !.afterFirst = Snapshot(files, backups)]
               ELSE hist
    /\ UNCHANGED <<files, backups, run, fileIdx, primed, completed, content, current_tag,
                   n, last>>

Next == Main \/ MigrateOpen \/ MigrateLine \/ MigrateClose \/ MainDone

Spec == Init /\ [][Next]_vars

(***************************************************************************)
(* The loop of migrate() taken alone: fresh processors, and a backup whose *)
(* lines are any lines of LinePool                                         *)
(***************************************************************************)
InitLoop ==
    /\ files = [f \in MdFiles |-> ""]
    /\ backups = [f \in MdFiles |-> NoBackup]
    /\ run = 1
    /\ pc = "lines"
    /\ fileIdx = 1
    /\ primed = FALSE
    /\ completed = FALSE
    /\ content = <<>>
    /\ current_tag = None
    /\ n = 0
    /\ last = NoLast
    /\ hist = [orig |-> files, afterFirst |-> [done |-> FALSE, files |-> files,
                                               backups |-> backups]]

LoopLine ==
    /\ pc = "lines"
    /\ n < MaxLines
    /\ \E l \in LinePool :
           LoopBody(l, Dispatch(_create_processors, 1, Self, n, l))
    /\ UNCHANGED <<files, backups, run, fileIdx, hist>>

NextLoop == LoopLine

SpecLoop == InitLoop /\ [][NextLoop]_vars

(***************************************************************************)
(* Properties of main() and migrate(), checked under Spec                  *)
(***************************************************************************)
RunEnded == pc \in {"idle", "failed"}

\* a backup that exists is left as it is
BackupKept ==
    \A f \in MdFiles : backups[f].exists => backups'[f] = backups[f]

\* a backup appears only in the first run, as a copy of the file as found
BackupCreatedOnce ==
    \A f \in MdFiles :
        (~backups[f].exists /\ backups'[f].exists) =>
            /\ run = 1
            /\ backups'[f].text = files[f]
            /\ backups'[f].text = hist.orig[f]

\* every line a run processes is the line of the backup at that index
ReadsBackup ==
    (pc = "lines" /\ last' # last /\ pc' # "glob") =>
        /\ last'.n + 1 <= Len(SplitLines(backups[GlobMatch[fileIdx]].text))
        /\ last'.line = SplitLines(backups[GlobMatch[fileIdx]].text)[last'.n + 1]

\* C1: over sequential runs of main() that start with no backup, a backup
\* is written only by the first run, as a verbatim copy of the file before
\* that run, and never overwritten; every run reads its lines from the
\* backup; when a second or later run has ended, every backup and every
\* file hold what they held when the first run ended.
C1_IdempotentBackup ==
    /\ []((run >= 2 /\ RunEnded) =>
            (files = hist.afterFirst.files /\ backups = hist.afterFirst.backups))
    /\ [][BackupKept /\ BackupCreatedOnce /\ ReadsBackup]_vars

\* a second run has ended after rewriting both files, and the migration
\* changed them
C1_Witness ==
    /\ run = 2
    /\ pc = "idle"
    /\ \A f \in MdFiles : backups[f].exists /\ files[f] # backups[f].text

LaterFiles == {GlobMatch[j] : j \in (fileIdx + 1)..Len(GlobMatch)}

\* the state an exception leaves: the later files untouched, the backup of
\* the failing file holding the original
FailedState ==
    /\ last.raised # ""
    /\ last.written = <<>>
    /\ \A f \in LaterFiles : backups[f] = NoBackup /\ files[f] = hist.orig[f]
    /\ backups[GlobMatch[fileIdx]] = [exists |-> TRUE, text |-> hist.orig[GlobMatch[fileIdx]]]

\* the step on which a processor raises writes nothing and ends the run
RaiseWritesNothing ==
    (pc = "lines" /\ last' # last /\ last'.raised # "") =>
        (files' = files /\ backups' = backups /\ pc' = "failed")

\* nothing is written after the exception until main() is started again
FailedIsFinal ==
    pc = "failed" =>
        /\ files' = files
        /\ backups' = backups
        /\ pc' = "failed" \/ run' = run + 1

\* C10: when a processor raises on a line, nothing is written for that
\* line or any later line of the file, the exception is caught neither per
\* line nor per file, no later file of the glob match is migrated (it gets
\* no backup and is not rewritten), and the backup of the failing file
\* holds the original content.
C10_ErrorsFatal ==
    /\ [](pc = "failed" => FailedState)
    /\ [][RaiseWritesNothing /\ FailedIsFinal]_vars

\* the first file fails on its second line after its first line was
\* written; the second file has been left alone
C10_Witness ==
    /\ pc = "failed"
    /\ fileIdx = 1
    /\ last.n = 1
    /\ files[GlobMatch[1]] # ""
    /\ backups[GlobMatch[2]] = NoBackup

(***************************************************************************)
(* Properties of the loop of migrate() and of the processors, checked      *)
(* under SpecLoop                                                          *)
(***************************************************************************)
\* a step of the loop: a line was read
LineRead == pc = "lines" /\ last' # last

\* what the last line read met: the HeaderTransformer alone was called
HeaderAlone == last.consulted = <<"HeaderTransformer">>

HeaderAloneNext == last'.consulted = <<"HeaderTransformer">>

\* the HeaderTransformer returned (True, None) for the line just read
HeaderConsumedNext ==
    /\ HeaderAloneNext
    /\ last'.raised = ""
    /\ last'.modified
    /\ last'.new_line = None
    /\ last'.written = <<>>

\* the HeaderTransformer returned (False, line): the next processors were called
HeaderDeclinedNext == Len(last'.consulted) >= 2 /\ last'.consulted[1] = "HeaderTransformer"

HeaderUnchanged ==
    UNCHANGED <<primed, completed, content, current_tag>>

RuleOrder ==
    <<"HeaderTransformer", "CodeBlocks", "Toc", "InternalContentLinks", "SiteLinks">>

\* processor p, called on the line just read, reports handled
Handles(p) ==
    LET r == process_line(p, Self, last'.n, last'.line)
    IN  r.raised = "" /\ r.modified

DispatchStep ==
    LET c == last'.consulted
        m == Len(c)
    IN  /\ m >= 1
        /\ c = SubSeq(RuleOrder, 1, m)
        /\ \A i \in 1..(m - 1) : ~Handles(c[i])
        /\ last'.raised = "" =>
              IF last'.modified
              THEN /\ Handles(c[m])
                   /\ last'.new_line = process_line(c[m], Self, last'.n, last'.line).new_line
                   /\ last'.written = IF last'.new_line.isNone \/ last'.new_line.v = ""
                                      THEN <<>> ELSE <<last'.new_line.v>>
              ELSE /\ m = Len(RuleOrder)
                   /\ last'.written = <<last'.line>>

\* C2: for every line read, the processors are called in the order front
\* matter, code fence, TOC, internal link, site link; the first that reports
\* handled alone decides what is written (its replacement, or nothing when
\* that is empty or None) and no later processor is called; a line no
\* processor handles is written as it was read.
C2_RuleDispatch == [][LineRead => DispatchStep]_vars

\* a line that both the code fence and the internal link processors match
\* was rewritten by the code fence processor, the link processor not called
C2_Witness ==
    /\ last.line = "{% highlight post_url %}\n"
    /\ last.consulted = <<"HeaderTransformer", "CodeBlocks">>
    /\ last.written = <<Fence \o "post_url\n">>

\* the line the front matter renders to for one tag, a scalar held by
\* tags counting as its only item
ExpectedEntry(e) ==
    IF e.k = "title" THEN <<"Title: " \o StripSet(e.s, {"\""})>>
    ELSE IF e.k = "tags" THEN <<"Tags: " \o Join(", ", IF e.isStr THEN <<e.s>> ELSE e.items)>>
    ELSE IF e.k = "description" THEN <<"Summary: " \o e.s>>
    ELSE <<>>

RECURSIVE ExpectedLines(_)
ExpectedLines(d) ==
    IF d = <<>> THEN <<>> ELSE ExpectedEntry(d[1]) \o ExpectedLines(Tail(d))

ExpectedHeader(d) ==
    IF ExpectedLines(d) = <<>> THEN <<>> ELSE <<Join("\n", ExpectedLines(d)) \o "\n">>

\* the line just read was the closing delimiter, and it was rendered
HeaderClosed ==
    /\ HeaderAlone
    /\ last.n >= 1
    /\ last.line = "---\n"
    /\ last.raised = ""
    /\ last.modified

\* C3: when the closing delimiter of a front matter parsed without error
\* is read, what is written in its place is one line per collected tag
\* among title, tags, description, in the order they were first recorded:
\* "Title: " and the title without its surrounding double quotes, "Tags: "
\* and the items of tags joined with ", ", "Summary: " and the description;
\* the lines joined by newlines with one trailing newline; nothing at all
\* when none of the three tags was collected.
C3_HeaderRendering == HeaderClosed => last.written = ExpectedHeader(content)

ExpectedPath(slug) ==
    IF StartsWith(slug, "articles/") \/ StartsWith(slug, "tips/")
    THEN "/" \o slug \o ".md"
    ELSE slug

ExpectedLink(link) == "[" \o link.text \o "]({filename}" \o ExpectedPath(link.slug) \o ")"

RECURSIVE ExpectedLinks(_)
ExpectedLinks(links) ==
    IF links = <<>> THEN ""
    ELSE IF Len(links) = 1 THEN ExpectedLink(links[1])
    ELSE ExpectedLink(links[1]) \o " and " \o ExpectedLinks(Tail(links))

\* LinkLine(w) with every destination rewritten and the rest preserved
ExpectedLinkLine(w) == w.pre \o ExpectedLinks(w.links) \o w.post \o "\n"

\* InternalContentLinks.process_line was called on the line just read
InternalCalled ==
    /\ Len(last.consulted) = 4
    /\ last.consulted[4] = "InternalContentLinks"

InternalRewrote(w) ==
    /\ last.raised = ""
    /\ last.modified
    /\ last.new_line = Some(ExpectedLinkLine(w))

\* C4: on a line that holds two or more well-formed links,
\* InternalContentLinks.process_line raises nothing and returns handled with
\* every destination rewritten to ({filename}<path>), <path> being
\* /<slug>.md for a slug under articles/ or tips/ and the slug otherwise,
\* the text outside the destinations preserved.
C4_SeveralLinks ==
    \A w \in WellFormedLinks :
        (Len(w.links) >= 2 /\ last.line = LinkLine(w) /\ InternalCalled) => InternalRewrote(w)

\* C9: on a line that holds one well-formed link, the destination ends at
\* the first closing parenthesis after its opening parenthesis, so the link
\* is rewritten whatever text, parentheses included, precedes it.
C9_ClosingParenthesis ==
    \A w \in WellFormedLinks :
        (Len(w.links) = 1 /\ last.line = LinkLine(w) /\ InternalCalled) => InternalRewrote(w)

\* the first line was the opening delimiter
OpenedAtLineZero == last.n = 0 /\ last.line = "---\n"

\* the line just read lies after the opening delimiter, and the closing
\* delimiter has not been read
InsideHeader == primed /\ ~completed /\ last.n >= 1

HeaderConsumed ==
    /\ HeaderAlone
    /\ last.modified
    /\ last.new_line = None
    /\ last.written = <<>>

\* C6: the HeaderTransformer processes all lines of the header: it returns
\* (True, None) for the opening delimiter on line 0 and for every line up
\* to the next delimiter, whatever the shape of the line, so no line between
\* the delimiters is written; (True, new header) for the closing delimiter;
\* (False, line) for every other line.
C6_AllHeaderLines ==
    (last.n >= 0 /\ last.raised = "") =>
        IF OpenedAtLineZero \/ InsideHeader THEN HeaderConsumed
        ELSE IF HeaderClosed THEN TRUE
        ELSE Len(last.consulted) >= 2

\* the HeaderTransformer is primed by the delimiter on line 0 and by
\* nothing else, and moves forward only
StateMachineStep ==
    /\ primed => primed'
    /\ completed => completed'
    /\ completed' => primed'
    /\ primed' <=> (primed \/ (last'.n = 0 /\ last'.line = "---\n"))
    /\ (~primed /\ primed') => (HeaderConsumedNext /\ ~completed' /\ content' = content)
    /\ ~primed' => (HeaderDeclinedNext /\ HeaderUnchanged)
    /\ (~completed /\ completed') => (primed /\ last'.line = "---\n" /\ HeaderAloneNext)
    /\ completed => (HeaderDeclinedNext /\ HeaderUnchanged)

\* C7: over the lines of one file the HeaderTransformer moves only
\* NOT_STARTED -> PRIMED -> COMPLETED; it becomes PRIMED only on line 0 being
\* exactly the delimiter, which is consumed with no output, and otherwise
\* declines every line of the file; once COMPLETED it declines every further
\* line, later delimiters and lines with a colon included, and changes
\* neither content nor any other field again.
C7_StateMachine == [][LineRead => StateMachineStep]_vars

\* after the header was closed, another delimiter line was declined by all
\* processors and written as it was
C7_Witness ==
    /\ completed
    /\ last.line = "---\n"
    /\ last.consulted = RuleOrder
    /\ last.written = <<"---\n">>

\* the line about to be read is read while PRIMED and not COMPLETED
ReadInHeader == LineRead /\ primed /\ ~completed

\* the index of the first colon of the line just read, -1 when it has none
FirstColon == FindIn(last'.line, ":")

\* the line just read is a list item: no colon, "- " after leading whitespace
IsItemLine == FirstColon = -1 /\ StartsWith(LStrip(last'.line), "- ")

\* the text of the item lines of LinePool
ItemText(line) ==
    CASE line = "- a\n" -> "a"
      [] line = "  - b\n" -> "b"

HoldsScalar ==
    /\ ~current_tag.isNone
    /\ HasKey(content, current_tag.v)
    /\ Get(content, current_tag.v).isStr

\* content with the item appended to the list of the current tag
ItemAppended(item) ==
    IF HasKey(content, current_tag.v)
    THEN [content EXCEPT ![KeyIndex(content, current_tag.v)] =
             ListValue(current_tag.v, Append(@.items, item))]
    ELSE Append(content, ListValue(current_tag.v, <<item>>))

ScalarsKept ==
    \A i \in 1..Len(content) :
        content[i].isStr => (Len(content') >= i /\ content'[i] = content[i])

\* what a list item does, given the condition under which it is refused
ItemStep(refused) ==
    /\ HeaderAloneNext
    /\ ScalarsKept
    /\ current_tag' = current_tag
    /\ IF refused
       THEN last'.raised = "RuntimeError" /\ content' = content
       ELSE /\ HeaderConsumedNext
            /\ content' = ItemAppended(ItemText(last'.line))

\* C5 as claimed: a list item read while PRIMED and not COMPLETED raises
\* when no current tag is set or the current tag holds a scalar, content
\* unchanged; otherwise it is appended to the list of the current tag.
C5_ItemAsClaimed ==
    [][(ReadInHeader /\ IsItemLine) => ItemStep(current_tag.isNone \/ HoldsScalar)]_vars

\* C5: a list item read while PRIMED and not COMPLETED raises when no
\* current tag is set, when the current tag is the empty string (the tag
\* line had a blank name), or when the current tag holds a scalar, content
\* unchanged; otherwise it is appended to the list of the current tag,
\* created if absent; a tag that holds a scalar never gets an item.
C5_ItemInconsistency ==
    [][(ReadInHeader /\ IsItemLine) =>
          ItemStep(current_tag.isNone \/ current_tag.v = "" \/ HoldsScalar)]_vars

\* a second item was appended to the list of the tag "tags"
C5_Witness ==
    /\ InsideHeader
    /\ last.line = "  - b\n"
    /\ last.raised = ""
    /\ content = <<ListValue("tags", <<"a", "b">>)>>

\* a line with a colon at an index greater than 1 is a tag line
TagLineStep ==
    /\ HeaderConsumedNext
    /\ current_tag' = Some(Lower(Strip(Slice(last'.line, 0, FirstColon))))
    /\ UNCHANGED <<primed, completed>>

\* a line that is no tag line, no list item and no delimiter is declined
\* and goes to the next processors, and to the output when they decline
PassedThrough ==
    /\ HeaderDeclinedNext
    /\ HeaderUnchanged
    /\ (last'.raised = "" /\ ~last'.modified) => last'.written = <<last'.line>>

\* a line dropped with no effect on the HeaderTransformer
Swallowed == HeaderConsumedNext /\ HeaderUnchanged

\* the classification of a line read inside the header, given what happens
\* to a line whose first colon is at index 0 or 1
Classification(shortColon) ==
    IF FirstColon > 1 THEN TagLineStep
    ELSE IF FirstColon >= 0 THEN shortColon
    ELSE IF IsItemLine THEN HeaderAloneNext
    ELSE IF last'.line = "---\n" THEN HeaderAloneNext /\ completed'
    ELSE PassedThrough

\* C8 as claimed: inside the header a line is a tag line only if its first
\* colon is at an index greater than 1; any other line is checked as a list
\* item, then as the closing delimiter, and otherwise (a colon at index 0 or
\* 1 included) declined with the state unchanged and passed through.
C8_AsClaimed == [][ReadInHeader => Classification(PassedThrough)]_vars

\* C8: inside the header a line that holds a colon is always consumed with
\* no output: it is a tag line only if its first colon is at an index
\* greater than 1, and with the colon at index 0 or 1 it is dropped, the
\* state unchanged; only a line with no colon is checked as a list item,
\* then as the closing delimiter, and otherwise declined with the state
\* unchanged and passed through to the next processors and the output.
C8_LineClassification == [][ReadInHeader => Classification(Swallowed)]_vars

\* a line with its colon at index 1 was dropped inside the header
C8_Witness ==
    /\ InsideHeader
    /\ last.line = "a:\n"
    /\ HeaderConsumed
    /\ current_tag = None

====
